---- MODULE Spec2Model ----
(***************************************************************************)
(* temporis: parse_date(date_str) turns a short date expression into a     *)
(* calendar date relative to the system clock (src/src/lib.rs).            *)
(*                                                                         *)
(* Text is modelled as a sequence of one-character strings, the regular    *)
(* expressions of lib.rs as matchers over such sequences, chrono's         *)
(* NaiveDate as a (year, month, day) record with day arithmetic through a  *)
(* day number, and one call of parse_date as a small state machine: the    *)
(* call reads the clock, classifies the input, and - for the weekday       *)
(* resolvers - enters a helper that reads the clock a second time.         *)
(***************************************************************************)
EXTENDS Integers, Sequences, FiniteSets, TLC

(***************************************************************************)
(* Bounds of the model.                                                    *)
(***************************************************************************)
\* The clock shows every day of the years FirstYear .. FirstYear + YearSpan - 1
\* (every day of the year FirstYear while a weekday input is parsed).
FirstYear == 2024
YearSpan == 2
\* Numbered weekday inputs <N><weekday> are drawn with N in 0 .. MaxWeeks.
MaxWeeks == 2
\* Numeric date inputs are drawn with month 0 .. MaxMonthIn and day 0 .. MaxDayIn.
MaxMonthIn == 13
MaxDayIn == 32

\* Largest amount of a relative offset.
MaxAmount == 2

(***************************************************************************)
(* Characters and text.                                                    *)
(***************************************************************************)
Digit == {"0", "1", "2", "3", "4", "5", "6", "7", "8", "9"}

Lower == {"a", "b", "c", "d", "e", "f", "g", "h", "i", "j", "k", "l", "m",
          "n", "o", "p", "q", "r", "s", "t", "u", "v", "w", "x", "y", "z"}

Upper == {"A", "B", "C", "D", "E", "F", "G", "H", "I", "J", "K", "L", "M",
          "N", "O", "P", "Q", "R", "S", "T", "U", "V", "W", "X", "Y", "Z"}

\* [a-zA-Z]
Alpha == Lower \cup Upper

\* [-/]
Sep == {"-", "/"}

\* The characters str::trim removes (those the inputs of the model use).
White == {" ", "\t", "\n"}

UpperSeq == <<"A", "B", "C", "D", "E", "F", "G", "H", "I", "J", "K", "L", "M",
              "N", "O", "P", "Q", "R", "S", "T", "U", "V", "W", "X", "Y", "Z">>

LowerSeq == <<"a", "b", "c", "d", "e", "f", "g", "h", "i", "j", "k", "l", "m",
              "n", "o", "p", "q", "r", "s", "t", "u", "v", "w", "x", "y", "z">>

\* char::to_lowercase on the characters of the model
LowerChar(c) ==
  IF c \in Upper
  THEN LowerSeq[CHOOSE i \in 1..26 : UpperSeq[i] = c]
  ELSE c

\* str::to_lowercase
to_lowercase(s) == [i \in 1..Len(s) |-> LowerChar(s[i])]

\* Mutant: str::trim_start, the trailing whitespace kept.
trim_LeadingOnly(s) ==
  LET keep == {i \in 1..Len(s) : s[i] \notin White}
  IN IF keep = {} THEN <<>>
     ELSE LET lo == CHOOSE i \in keep : \A j \in keep : i <= j
          IN SubSeq(s, lo, Len(s))

\* str::trim: drops the leading and the trailing run of whitespace only
trim(s) ==
  LET keep == {i \in 1..Len(s) : s[i] \notin White}
  IN IF keep = {} THEN <<>>
     ELSE LET lo == CHOOSE i \in keep : \A j \in keep : i <= j
              hi == CHOOSE i \in keep : \A j \in keep : j <= i
          IN SubSeq(s, lo, hi)

DigitSeq == <<"0", "1", "2", "3", "4", "5", "6", "7", "8", "9">>

DigitVal(c) == (CHOOSE i \in 1..10 : DigitSeq[i] = c) - 1

\* The value of a digit string (str::parse for strings short enough not to
\* overflow the target type).
RECURSIVE ParseNat(_)
ParseNat(ds) ==
  IF ds = <<>> THEN 0
  ELSE 10 * ParseNat(SubSeq(ds, 1, Len(ds) - 1)) + DigitVal(ds[Len(ds)])

\* Decimal text of n without padding, and padded with zeros to width w.
RECURSIVE Dec(_)
Dec(n) == IF n < 10 THEN <<DigitSeq[n + 1]>> ELSE Dec(n \div 10) \o <<DigitSeq[(n % 10) + 1]>>

RECURSIVE Pad(_, _)
Pad(ds, w) == IF Len(ds) >= w THEN ds ELSE Pad(<<"0">> \o ds, w)

(***************************************************************************)
(* Vocabulary tables.                                                      *)
(***************************************************************************)
\* Weekday names by chrono's num_days_from_monday (Mon = 0 .. Sun = 6).
WeekdayFull ==
  <<<<"m","o","n","d","a","y">>,
    <<"t","u","e","s","d","a","y">>,
    <<"w","e","d","n","e","s","d","a","y">>,
    <<"t","h","u","r","s","d","a","y">>,
    <<"f","r","i","d","a","y">>,
    <<"s","a","t","u","r","d","a","y">>,
    <<"s","u","n","d","a","y">>>>

WeekdayShort ==
  <<<<"m","o","n">>,
    <<"t","u","e">>,
    <<"w","e","d">>,
    <<"t","h","u">>,
    <<"f","r","i">>,
    <<"s","a","t">>,
    <<"s","u","n">>>>

\* The alternation (monday|mon|...|sunday|sun) of the weekday regexes.
WeekdayNames == {WeekdayFull[i] : i \in 1..7} \cup {WeekdayShort[i] : i \in 1..7}

\* The weekday a name stands for, as num_days_from_monday.
WeekdayOf(w) == (CHOOSE i \in 1..7 : w = WeekdayFull[i] \/ w = WeekdayShort[i]) - 1

MonthFull ==
  <<<<"j","a","n","u","a","r","y">>,
    <<"f","e","b","r","u","a","r","y">>,
    <<"m","a","r","c","h">>,
    <<"a","p","r","i","l">>,
    <<"m","a","y">>,
    <<"j","u","n","e">>,
    <<"j","u","l","y">>,
    <<"a","u","g","u","s","t">>,
    <<"s","e","p","t","e","m","b","e","r">>,
    <<"o","c","t","o","b","e","r">>,
    <<"n","o","v","e","m","b","e","r">>,
    <<"d","e","c","e","m","b","e","r">>>>

MonthShort ==
  <<<<"j","a","n">>,
    <<"f","e","b">>,
    <<"m","a","r">>,
    <<"a","p","r">>,
    <<"m","a","y">>,
    <<"j","u","n">>,
    <<"j","u","l">>,
    <<"a","u","g">>,
    <<"s","e","p">>,
    <<"o","c","t">>,
    <<"n","o","v">>,
    <<"d","e","c">>>>

\* The keys of MONTH_MAP.
MonthNames == {MonthFull[i] : i \in 1..12} \cup {MonthShort[i] : i \in 1..12}

DayUnits == {<<"d">>, <<"d","a","y">>, <<"d","a","y","s">>}

WeekUnits == {<<"w">>, <<"w","k">>, <<"w","k","s">>, <<"w","e","e","k">>, <<"w","e","e","k","s">>}

MonthUnits == {<<"m">>, <<"m","t","h">>, <<"m","t","h","s">>, <<"m","o","n","t","h">>, <<"m","o","n","t","h","s">>}

YearUnits == {<<"y">>, <<"y","r">>, <<"y","r","s">>, <<"y","e","a","r">>, <<"y","e","a","r","s">>}

Units == DayUnits \cup WeekUnits \cup MonthUnits \cup YearUnits

OrdinalSuffixes == {<<"s","t">>, <<"n","d">>, <<"r","d">>, <<"t","h">>}

K_today == <<"t","o","d","a","y">>

K_tod == <<"t","o","d">>

K_now == <<"n","o","w">>

K_yesterday == <<"y","e","s","t","e","r","d","a","y">>

K_yes == <<"y","e","s">>

K_tomorrow == <<"t","o","m","o","r","r","o","w">>

K_tom == <<"t","o","m">>

K_sow == <<"s","o","w">>

K_soww == <<"s","o","w","w">>

K_som == <<"s","o","m">>

K_soq == <<"s","o","q">>

K_soy == <<"s","o","y">>

K_eow == <<"e","o","w">>

K_eoww == <<"e","o","w","w">>

K_eom == <<"e","o","m">>

K_eoq == <<"e","o","q">>

K_eoy == <<"e","o","y">>

K_eonw == <<"e","o","n","w">>

K_eonm == <<"e","o","n","m">>

K_eonq == <<"e","o","n","q">>

K_eony == <<"e","o","n","y">>

(***************************************************************************)
(* chrono: NaiveDate, Duration, Weekday.                                   *)
(***************************************************************************)
\* Mutant: the Julian rule, every fourth year a leap year.
IsLeap_Julian(y) == y % 4 = 0

\* The Gregorian leap-year rule NaiveDate::from_ymd_opt validates against.
IsLeap(y) == y % 4 = 0 /\ (y % 100 # 0 \/ y % 400 = 0)

DaysInMonth(y, m) ==
  IF m = 2 THEN (IF IsLeap(y) THEN 29 ELSE 28)
  ELSE IF m \in {4, 6, 9, 11} THEN 30
  ELSE 31

\* A date value; NoDate fills the date field of a result that carries none.
Date(y, m, d) == [year |-> y, month |-> m, day |-> d]

NoDate == Date(0, 0, 0)

\* Option<NaiveDate>
Some(date) == [some |-> TRUE, date |-> date]

None == [some |-> FALSE, date |-> NoDate]

\* NaiveDate::from_ymd_opt(year, month, day)
from_ymd_opt(y, m, d) ==
  IF m >= 1 /\ m <= 12 /\ d >= 1 /\ d <= DaysInMonth(y, m)
  THEN Some(Date(y, m, d))
  ELSE None

\* Days of year y before the first of month m.
RECURSIVE DaysBeforeMonth(_, _)
DaysBeforeMonth(y, m) ==
  IF m <= 1 THEN 0 ELSE DaysBeforeMonth(y, m - 1) + DaysInMonth(y, m - 1)

\* The day number of a date: days elapsed since 0000-01-01 (proleptic Gregorian).
ToDays(date) ==
  LET y == date.year
      p == y - 1
  IN 365 * y + (p \div 4) - (p \div 100) + (p \div 400) + 1
     + DaysBeforeMonth(y, date.month) + date.day - 1

\* The date of a day number (the inverse of ToDays).
FromDays(n) ==
  LET z == n - 60
      era == z \div 146097
      doe == z % 146097
      yoe == (doe - (doe \div 1460) + (doe \div 36524) - (doe \div 146096)) \div 365
      doy == doe - (365 * yoe + (yoe \div 4) - (yoe \div 100))
      mp == (5 * doy + 2) \div 153
      d == doy - ((153 * mp + 2) \div 5) + 1
      m == IF mp < 10 THEN mp + 3 ELSE mp - 9
      y == yoe + era * 400 + (IF m <= 2 THEN 1 ELSE 0)
  IN Date(y, m, d)

\* NaiveDate + Duration::days(n)
AddDays(date, n) == FromDays(ToDays(date) + n)

\* (a - b).num_days()
DaysBetween(a, b) == ToDays(a) - ToDays(b)

\* Datelike::weekday().num_days_from_monday(): 0001-01-01 (day 366) is a Monday.
WeekdayIndex(date) == (ToDays(date) + 5) % 7

\* The order of NaiveDate values.
DateLE(a, b) == ToDays(a) <= ToDays(b)

DateLT(a, b) == ToDays(a) < ToDays(b)

(***************************************************************************)
(* Results of parse_date: Result<NaiveDate, anyhow::Error>.                *)
(***************************************************************************)
Ok(date) == [ok |-> TRUE, date |-> date, err |-> ""]

Err(msg) == [ok |-> FALSE, date |-> NoDate, err |-> msg]

(***************************************************************************)
(* The regular expressions of lazy_static!.  A pattern is a sequence of    *)
(* pieces, each a character class repeated min..max times; a last piece    *)
(* may be an alternation of words instead.  Adjacent pieces of every       *)
(* pattern of lib.rs have disjoint classes, so the greedy match is the     *)
(* only match.  caps[i] is the text matched by piece i.                    *)
(***************************************************************************)
Class(cls, min, max) == [cls |-> cls, min |-> min, max |-> max, words |-> {}]

Words(ws) == [cls |-> {}, min |-> 0, max |-> 0, words |-> ws]

NoMatch == [ok |-> FALSE, caps |-> <<>>]

\* The length of the longest prefix of s made of characters of cls.
LeadLen(s, cls) ==
  CHOOSE n \in 0..Len(s) :
    /\ \A i \in 1..n : s[i] \in cls
    /\ (n = Len(s) \/ s[n + 1] \notin cls)

RECURSIVE Match(_, _)
Match(pat, s) ==
  IF pat = <<>>
  THEN (IF s = <<>> THEN [ok |-> TRUE, caps |-> <<>>] ELSE NoMatch)
  ELSE LET p == Head(pat)
       IN IF p.words # {}
          THEN (IF Len(pat) = 1 /\ s \in p.words
                THEN [ok |-> TRUE, caps |-> <<s>>]
                ELSE NoMatch)
          ELSE LET run == LeadLen(s, p.cls)
                   n == IF run > p.max THEN p.max ELSE run
               IN IF n < p.min THEN NoMatch
                  ELSE LET rest == Match(Tail(pat), SubSeq(s, n + 1, Len(s)))
                       IN IF rest.ok
                          THEN [ok |-> TRUE, caps |-> <<SubSeq(s, 1, n)>> \o rest.caps]
                          ELSE NoMatch

\* \d+ and [a-zA-Z]+ are bounded by the length of the text.
Many(s) == Len(s) + 1

\* ^n(monday|mon|...)$ : caps[2] is the weekday
NEXT_WEEKDAY_REGEX(s) == Match(<<Class({"n"}, 1, 1), Words(WeekdayNames)>>, s)

\* ^(\d+)(monday|mon|...)$ : caps[1], caps[2]
NUMBERED_WEEKDAY_REGEX(s) == Match(<<Class(Digit, 1, Many(s)), Words(WeekdayNames)>>, s)

\* ^(\d{4})[-/](\d{1,2})[-/](\d{1,2})$ : caps[1], caps[3], caps[5]
DATE_REGEX_YMD(s) ==
  Match(<<Class(Digit, 4, 4), Class(Sep, 1, 1), Class(Digit, 1, 2),
          Class(Sep, 1, 1), Class(Digit, 1, 2)>>, s)

\* ^(\d{1,2})[-/](\d{1,2})[-/](\d{4})$ : caps[1], caps[3], caps[5]
DATE_REGEX_DMY(s) ==
  Match(<<Class(Digit, 1, 2), Class(Sep, 1, 1), Class(Digit, 1, 2),
          Class(Sep, 1, 1), Class(Digit, 4, 4)>>, s)

\* ^(\d{1,2})[-/]([a-zA-Z]+)$ : caps[1], caps[3]
DAY_MONTH_REGEX(s) ==
  Match(<<Class(Digit, 1, 2), Class(Sep, 1, 1), Class(Alpha, 1, Many(s))>>, s)

\* ^([a-zA-Z]+)[-/](\d{1,2})$ : caps[1], caps[3]
MONTH_DAY_REGEX(s) ==
  Match(<<Class(Alpha, 1, Many(s)), Class(Sep, 1, 1), Class(Digit, 1, 2)>>, s)

\* ^(\d{1,2})[-/]([a-zA-Z]+)[-/](\d{4})$ : caps[1], caps[3], caps[5]
FULL_DATE_ALPHA_DMY(s) ==
  Match(<<Class(Digit, 1, 2), Class(Sep, 1, 1), Class(Alpha, 1, Many(s)),
          Class(Sep, 1, 1), Class(Digit, 4, 4)>>, s)

\* ^(\d{4})[-/]([a-zA-Z]+)[-/](\d{1,2})$ : caps[1], caps[3], caps[5]
FULL_DATE_ALPHA_YMD(s) ==
  Match(<<Class(Digit, 4, 4), Class(Sep, 1, 1), Class(Alpha, 1, Many(s)),
          Class(Sep, 1, 1), Class(Digit, 1, 2)>>, s)

\* ^(\d{1,2})[-/](\d{1,2})$ : caps[1], caps[3]
SHORT_DATE_REGEX(s) ==
  Match(<<Class(Digit, 1, 2), Class(Sep, 1, 1), Class(Digit, 1, 2)>>, s)

\* ^(\d{1,2})(st|nd|rd|th)$ : caps[1], caps[2]
ORDINAL_DATE_REGEX(s) == Match(<<Class(Digit, 1, 2), Words(OrdinalSuffixes)>>, s)

\* ^(-?\d+)(d|day|...|years)$ : caps[1] the sign (or empty), caps[2] the digits,
\* caps[3] the unit
RELATIVE_TIME_REGEX(s) ==
  Match(<<Class({"-"}, 0, 1), Class(Digit, 1, Many(s)), Words(Units)>>, s)

\* Mutant: the entry of "june" mistyped as 7.
MONTH_MAP_JuneTypo(name) ==
  IF name = MonthFull[6] THEN 7
  ELSE IF name \in MonthNames
  THEN CHOOSE i \in 1..12 : name = MonthFull[i] \/ name = MonthShort[i]
  ELSE 0

\* MONTH_MAP.get(name): 0 stands for a missing key
MONTH_MAP(name) ==
  IF name \in MonthNames
  THEN CHOOSE i \in 1..12 : name = MonthFull[i] \/ name = MonthShort[i]
  ELSE 0

(***************************************************************************)
(* Number parsing and date arithmetic at the edge of their ranges.         *)
(***************************************************************************)
\* A digit string without its leading zeros.
RECURSIVE StripZeros(_)
StripZeros(ds) ==
  IF Len(ds) > 1 /\ ds[1] = "0" THEN StripZeros(Tail(ds)) ELSE ds

\* i64::MAX = 9223372036854775807
I64MaxDigits ==
  <<"9","2","2","3","3","7","2","0","3","6","8","5","4","7","7","5","8","0","7">>

\* Lexicographic a <= b for digit strings of equal length.
RECURSIVE DigitsLE(_, _)
DigitsLE(a, b) ==
  IF a = <<>> THEN TRUE
  ELSE IF a[1] # b[1] THEN DigitVal(a[1]) < DigitVal(b[1])
  ELSE DigitsLE(Tail(a), Tail(b))

\* -i64::MIN = 9223372036854775808
I64MinDigits ==
  <<"9","2","2","3","3","7","2","0","3","6","8","5","4","7","7","5","8","0","8">>

\* str::parse::<i64>() of a digit string with its sign apart: ok is FALSE on
\* overflow (ParseIntError); val is the magnitude when it has at most 9
\* significant digits, and small says so.
ParseI64(negative, ds) ==
  LET t == StripZeros(ds)
      limit == IF negative THEN I64MinDigits ELSE I64MaxDigits
  IN [ok    |-> Len(t) < 19 \/ (Len(t) = 19 /\ DigitsLE(t, limit)),
      small |-> Len(t) <= 9,
      val   |-> IF Len(t) <= 9 THEN ParseNat(t) ELSE 0]

\* The call aborts (a panic): not a value of Result.
Abort(msg) == [ok |-> FALSE, date |-> NoDate, err |-> "panic: " \o msg]

\* The day numbers of NaiveDate::MIN and NaiveDate::MAX are beyond +-95,000,000;
\* the model keeps every date it computes within these years.
MinDateYear == 0 - 262143

MaxDateYear == 262142

\* NaiveDate + Duration::days(n) as a result: the addition panics when the
\* date leaves NaiveDate's range.
DatePlus(date, n) ==
  IF n > 200000000 \/ n < 0 - 200000000
  THEN Abort("NaiveDate + Duration overflowed")
  ELSE LET r == AddDays(date, n)
       IN IF r.year < MinDateYear \/ r.year > MaxDateYear
          THEN Abort("NaiveDate + Duration overflowed")
          ELSE Ok(r)

(***************************************************************************)
(* The helpers of parse_date.  today is the date of the clock reading the  *)
(* helper works from.                                                      *)
(***************************************************************************)
\* fn parse_month
parse_month(month_str) ==
  LET m == MONTH_MAP(to_lowercase(month_str))
  IN IF m = 0 THEN [ok |-> FALSE, val |-> 0] ELSE [ok |-> TRUE, val |-> m]

\* Mutant: only a negative difference is moved to the next week, so the
\* weekday of today resolves to today.
find_next_weekday_AllowToday(today, weekday) ==
  LET raw == weekday - WeekdayIndex(today)
      days_until_target == IF raw < 0 THEN raw + 7 ELSE raw
  IN AddDays(today, days_until_target)

\* fn find_next_weekday, from its own clock reading
find_next_weekday(today, weekday) ==
  LET raw == weekday - WeekdayIndex(today)
      days_until_target == IF raw <= 0 THEN raw + 7 ELSE raw
  IN AddDays(today, days_until_target)

\* Mutant: the difference is moved to the next week whatever weeks_ahead is.
find_weekday_offset_AlwaysRelaxed(today, weekday, weeks_ahead) ==
  LET raw == weekday - WeekdayIndex(today)
      relaxed == IF raw <= 0 THEN raw + 7 ELSE raw
  IN AddDays(today, relaxed + weeks_ahead * 7)

\* Mutant: the difference is never moved to the next week.
find_weekday_offset_NeverRelaxed(today, weekday, weeks_ahead) ==
  LET raw == weekday - WeekdayIndex(today)
  IN AddDays(today, raw + weeks_ahead * 7)

\* Mutant: with weeks_ahead = 0 the weekday of today is today itself.
find_weekday_offset_TodayAllowed(today, weekday, weeks_ahead) ==
  LET raw == weekday - WeekdayIndex(today)
      relaxed == IF raw < 0 /\ weeks_ahead = 0 THEN raw + 7 ELSE raw
      days_until_target == relaxed + weeks_ahead * 7
  IN AddDays(today, days_until_target)

\* fn find_weekday_offset, from its own clock reading
find_weekday_offset(today, weekday, weeks_ahead) ==
  LET raw == weekday - WeekdayIndex(today)
      relaxed == IF raw <= 0 /\ weeks_ahead = 0 THEN raw + 7 ELSE raw
      days_until_target == relaxed + weeks_ahead * 7
  IN AddDays(today, days_until_target)

\* The loop of find_next_occurrence_of_day from (year, month).
RECURSIVE OrdinalSearch(_, _, _, _)
OrdinalSearch(year, month, day, start_year) ==
  LET date == from_ymd_opt(year, month, day)
      month1 == IF month + 1 > 12 THEN 1 ELSE month + 1
      year1 == IF month + 1 > 12 THEN year + 1 ELSE year
  IN IF date.some THEN Ok(date.date)
     ELSE IF year1 > start_year + 2
          THEN Err("Could not find valid date within reasonable timeframe")
          ELSE OrdinalSearch(year1, month1, day, start_year)

\* The number of months the loop of find_next_occurrence_of_day tries from
\* (year, month) before it returns.
RECURSIVE OrdinalLoopTries(_, _, _, _)
OrdinalLoopTries(year, month, day, start_year) ==
  LET date == from_ymd_opt(year, month, day)
      month1 == IF month + 1 > 12 THEN 1 ELSE month + 1
      year1 == IF month + 1 > 12 THEN year + 1 ELSE year
  IN IF date.some \/ year1 > start_year + 2 THEN 1
     ELSE 1 + OrdinalLoopTries(year1, month1, day, start_year)

\* The months find_next_occurrence_of_day tries.
OrdinalTries(now, day) ==
  LET bump == now.day >= day
      month == IF bump THEN (IF now.month + 1 > 12 THEN 1 ELSE now.month + 1)
               ELSE now.month
      year == IF bump /\ now.month + 1 > 12 THEN now.year + 1 ELSE now.year
  IN OrdinalLoopTries(year, month, day, now.year)

\* Mutant: the month of today kept when today is the asked day.
find_next_occurrence_of_day_AllowToday(now, day) ==
  LET bump == now.day > day
      month == IF bump THEN (IF now.month + 1 > 12 THEN 1 ELSE now.month + 1)
               ELSE now.month
      year == IF bump /\ now.month + 1 > 12 THEN now.year + 1 ELSE now.year
  IN OrdinalSearch(year, month, day, now.year)

\* fn find_next_occurrence_of_day
find_next_occurrence_of_day(now, day) ==
  LET bump == now.day >= day
      month == IF bump THEN (IF now.month + 1 > 12 THEN 1 ELSE now.month + 1)
               ELSE now.month
      year == IF bump /\ now.month + 1 > 12 THEN now.year + 1 ELSE now.year
  IN OrdinalSearch(year, month, day, now.year)

\* Mutant: the date of this year refused when it is today.
find_next_occurrence_StrictlyAfter(today, month, day) ==
  LET this_year == today.year
      next_year == this_year + 1
      first == from_ymd_opt(this_year, month, day)
      second == from_ymd_opt(next_year, month, day)
  IN IF first.some /\ DateLT(today, first.date) THEN Ok(first.date)
     ELSE IF second.some THEN Ok(second.date)
     ELSE Err("Invalid date: the specified day does not exist for this month")

\* fn find_next_occurrence
find_next_occurrence(today, month, day) ==
  LET this_year == today.year
      next_year == this_year + 1
      first == from_ymd_opt(this_year, month, day)
      second == from_ymd_opt(next_year, month, day)
  IN IF first.some /\ DateLE(today, first.date) THEN Ok(first.date)
     ELSE IF second.some THEN Ok(second.date)
     ELSE Err("Invalid date: the specified day does not exist for this month")

\* ....expect("Invalid date in ...") - Duration::days(minus): aborts on None
Expect(opt, fn, minus) ==
  IF opt.some THEN Ok(AddDays(opt.date, 0 - minus))
  ELSE Abort("Invalid date in " \o fn)

\* Mutant: the month after December is not wrapped to January.
start_of_next_month_NoWrap(now) ==
  Expect(from_ymd_opt(now.year, now.month + 1, 1), "start_of_next_month", 0)

\* fn start_of_next_month
start_of_next_month(now) ==
  LET month == now.month + 1
  IN Expect(IF month > 12 THEN from_ymd_opt(now.year + 1, 1, 1)
            ELSE from_ymd_opt(now.year, month, 1),
            "start_of_next_month", 0)

\* Mutant: the quarter taken from month / 3 instead of (month - 1) / 3.
NextQuarterMonth_FromOne(now) == ((now.month \div 3) + 1) * 3 + 1

\* The month start_of_next_quarter and end_of_current_quarter compute
\* before the wrap: the first month of the quarter after that of now.
NextQuarterMonth(now) == (((now.month - 1) \div 3) + 1) * 3 + 1

\* fn start_of_next_quarter
start_of_next_quarter(now) ==
  LET month == NextQuarterMonth(now)
  IN Expect(IF month > 12 THEN from_ymd_opt(now.year + 1, month - 12, 1)
            ELSE from_ymd_opt(now.year, month, 1),
            "start_of_next_quarter", 0)

\* fn start_of_next_year
start_of_next_year(now) ==
  Expect(from_ymd_opt(now.year + 1, 1, 1), "start_of_next_year", 0)

\* Mutant: the year is not advanced when the month wraps.
end_of_current_month_SameYear(now) ==
  LET month == now.month + 1
  IN Expect(IF month > 12 THEN from_ymd_opt(now.year, 1, 1)
            ELSE from_ymd_opt(now.year, month, 1),
            "end_of_current_month", 1)

\* fn end_of_current_month
end_of_current_month(now) ==
  LET month == now.month + 1
  IN Expect(IF month > 12 THEN from_ymd_opt(now.year + 1, 1, 1)
            ELSE from_ymd_opt(now.year, month, 1),
            "end_of_current_month", 1)

\* fn end_of_current_quarter
end_of_current_quarter(now) ==
  LET month == NextQuarterMonth(now)
  IN Expect(IF month > 12 THEN from_ymd_opt(now.year + 1, month - 12, 1)
            ELSE from_ymd_opt(now.year, month, 1),
            "end_of_current_quarter", 1)

\* fn end_of_current_year
end_of_current_year(now) ==
  Expect(from_ymd_opt(now.year + 1, 1, 1), "end_of_current_year", 1)

\* fn end_of_next_month
end_of_next_month(now) ==
  LET month == now.month + 2
  IN Expect(IF month > 12 THEN from_ymd_opt(now.year + 1, month - 12, 1)
            ELSE from_ymd_opt(now.year, month, 1),
            "end_of_next_month", 1)

\* Mutant: one quarter added instead of two, the end of the current quarter.
end_of_next_quarter_OneQuarter(now) ==
  LET current_quarter == (now.month - 1) \div 3
      next_quarter == current_quarter + 1
      year == now.year + (next_quarter \div 4)
      month == ((next_quarter % 4) * 3) + 1
  IN Expect(from_ymd_opt(year, month, 1), "end_of_next_quarter", 1)

\* fn end_of_next_quarter
end_of_next_quarter(now) ==
  LET current_quarter == (now.month - 1) \div 3
      next_quarter == current_quarter + 2
      year == now.year + (next_quarter \div 4)
      month == ((next_quarter % 4) * 3) + 1
  IN Expect(from_ymd_opt(year, month, 1), "end_of_next_quarter", 1)

\* fn end_of_next_year
end_of_next_year(now) ==
  Expect(from_ymd_opt(now.year + 2, 1, 1), "end_of_next_year", 1)

(***************************************************************************)
(* parse_date: the classifier.  Each pattern of the function is one        *)
(* operator, which returns from the call (Return), hands over to a helper  *)
(* that reads the clock itself (Call), or falls through to the next        *)
(* pattern (Next).  now is the date of the reading made at line 53.        *)
(***************************************************************************)
Return(res) ==
  [kind |-> "return", res |-> res, fn |-> "", weekday |-> 0, weeks_ahead |-> 0, plus |-> 0]

Call(fn, weekday, weeks_ahead, plus) ==
  [kind |-> "call", res |-> Err(""), fn |-> fn, weekday |-> weekday,
   weeks_ahead |-> weeks_ahead, plus |-> plus]

FallThrough ==
  [kind |-> "next", res |-> Err(""), fn |-> "", weekday |-> 0, weeks_ahead |-> 0, plus |-> 0]

\* let input = date_str.trim().to_lowercase();
Normalize(date_str) == to_lowercase(trim(date_str))

\* if let Some(caps) = DATE_REGEX_YMD.captures(&input) { if let Ok(date) = ... }
TryYMD(input) ==
  LET m == DATE_REGEX_YMD(input)
  IN IF ~m.ok THEN FallThrough
     ELSE LET date == from_ymd_opt(ParseNat(m.caps[1]), ParseNat(m.caps[3]),
                                   ParseNat(m.caps[5]))
          IN IF date.some THEN Return(Ok(date.date)) ELSE FallThrough

\* if let Some(caps) = DATE_REGEX_DMY.captures(&input) { if let Ok(date) = ... }
TryDMY(input) ==
  LET m == DATE_REGEX_DMY(input)
  IN IF ~m.ok THEN FallThrough
     ELSE LET date == from_ymd_opt(ParseNat(m.caps[5]), ParseNat(m.caps[3]),
                                   ParseNat(m.caps[1]))
          IN IF date.some THEN Return(Ok(date.date)) ELSE FallThrough

\* "today" | "tod" | "now", "yesterday" | "yes", "tomorrow" | "tom"
TryKeyword(input, now) ==
  IF input \in {K_today, K_tod, K_now} THEN Return(Ok(now))
  ELSE IF input \in {K_yesterday, K_yes} THEN Return(Ok(AddDays(now, 0 - 1)))
  ELSE IF input \in {K_tomorrow, K_tom} THEN Return(Ok(AddDays(now, 1)))
  ELSE FallThrough

\* Mutant: eoww as the Friday, not the Saturday.
TryMarker_FridayEnd(input, now) ==
  IF input = K_sow THEN Call("find_next_weekday", 0, 0, 0)
  ELSE IF input = K_soww THEN Call("find_next_weekday", 0, 0, 0)
  ELSE IF input = K_som THEN Return(start_of_next_month(now))
  ELSE IF input = K_soq THEN Return(start_of_next_quarter(now))
  ELSE IF input = K_soy THEN Return(start_of_next_year(now))
  ELSE IF input = K_eow THEN Call("find_next_weekday", 0, 0, 0 - 1)
  ELSE IF input = K_eoww THEN Call("find_next_weekday", 4, 0, 0)
  ELSE IF input = K_eom THEN Return(end_of_current_month(now))
  ELSE IF input = K_eoq THEN Return(end_of_current_quarter(now))
  ELSE IF input = K_eoy THEN Return(end_of_current_year(now))
  ELSE IF input = K_eonw THEN Call("find_next_weekday", 0, 0, 6)
  ELSE IF input = K_eonm THEN Return(end_of_next_month(now))
  ELSE IF input = K_eonq THEN Return(end_of_next_quarter(now))
  ELSE IF input = K_eony THEN Return(end_of_next_year(now))
  ELSE FallThrough

\* "monday" | "mon" => return Ok(find_next_weekday(Weekday::Mon)), ...
TryWeekday(input) ==
  IF input \in WeekdayNames
  THEN Call("find_next_weekday", WeekdayOf(input), 0, 0)
  ELSE FallThrough

\* Mutant: n<weekday> as one week after the bare weekday.
TryNextWeekday_BarePlusWeek(input) ==
  LET m == NEXT_WEEKDAY_REGEX(input)
  IN IF m.ok THEN Call("find_next_weekday", WeekdayOf(m.caps[2]), 0, 7)
     ELSE FallThrough

\* Next week's weekday (nfriday)
TryNextWeekday(input) ==
  LET m == NEXT_WEEKDAY_REGEX(input)
  IN IF m.ok THEN Call("find_weekday_offset", WeekdayOf(m.caps[2]), 1, 0)
     ELSE FallThrough

\* Numbered weekday (1friday, 2friday, etc.).  A count beyond i64 is the
\* ParseIntError the ? operator returns; a count whose 7-fold exceeds
\* 200,000,000 days takes the date out of the range of NaiveDate (where
\* overflow checks are off the product weeks_ahead * 7 may wrap instead).
TryNumberedWeekday(input) ==
  LET m == NUMBERED_WEEKDAY_REGEX(input)
  IN IF ~m.ok THEN FallThrough
     ELSE LET weeks_ahead == ParseI64(FALSE, m.caps[1])
          IN IF ~weeks_ahead.ok THEN Return(Err("number too large to fit in target type"))
             ELSE IF ~weeks_ahead.small \/ weeks_ahead.val > 200000000 \div 7
                  THEN Return(Abort("NaiveDate + Duration overflowed"))
             ELSE Call("find_weekday_offset", WeekdayOf(m.caps[2]), weeks_ahead.val, 0)

\* Business period markers
TryMarker(input, now) ==
  IF input = K_sow THEN Call("find_next_weekday", 0, 0, 0)
  ELSE IF input = K_soww THEN Call("find_next_weekday", 0, 0, 0)
  ELSE IF input = K_som THEN Return(start_of_next_month(now))
  ELSE IF input = K_soq THEN Return(start_of_next_quarter(now))
  ELSE IF input = K_soy THEN Return(start_of_next_year(now))
  ELSE IF input = K_eow THEN Call("find_next_weekday", 0, 0, 0 - 1)
  ELSE IF input = K_eoww THEN Call("find_next_weekday", 5, 0, 0)
  ELSE IF input = K_eom THEN Return(end_of_current_month(now))
  ELSE IF input = K_eoq THEN Return(end_of_current_quarter(now))
  ELSE IF input = K_eoy THEN Return(end_of_current_year(now))
  ELSE IF input = K_eonw THEN Call("find_next_weekday", 0, 0, 6)
  ELSE IF input = K_eonm THEN Return(end_of_next_month(now))
  ELSE IF input = K_eonq THEN Return(end_of_next_quarter(now))
  ELSE IF input = K_eony THEN Return(end_of_next_year(now))
  ELSE FallThrough

\* Mutant: day 0 refused before the search.
TryOrdinal_FromOne(input, now) ==
  LET m == ORDINAL_DATE_REGEX(input)
  IN IF m.ok /\ ParseNat(m.caps[1]) >= 1 /\ ParseNat(m.caps[1]) <= 31
     THEN Return(find_next_occurrence_of_day(now, ParseNat(m.caps[1])))
     ELSE FallThrough

\* Mutant: day numbers up to 30 only.
TryOrdinal_ThirtyDays(input, now) ==
  LET m == ORDINAL_DATE_REGEX(input)
  IN IF m.ok /\ ParseNat(m.caps[1]) <= 30
     THEN Return(find_next_occurrence_of_day(now, ParseNat(m.caps[1])))
     ELSE FallThrough

\* Ordinal dates (1st, 2nd, etc.)
TryOrdinal(input, now) ==
  LET m == ORDINAL_DATE_REGEX(input)
  IN IF m.ok /\ ParseNat(m.caps[1]) <= 31
     THEN Return(find_next_occurrence_of_day(now, ParseNat(m.caps[1])))
     ELSE FallThrough

\* Mutant: the sign of the amount dropped.
TryRelative_IgnoreSign(input, now) ==
  LET m == RELATIVE_TIME_REGEX(input)
  IN IF ~m.ok THEN FallThrough
     ELSE LET amount == ParseI64(m.caps[1] # <<>>, m.caps[2])
              sign == 1
              unit == m.caps[3]
              per == IF unit \in DayUnits THEN 1
                     ELSE IF unit \in WeekUnits THEN 7
                     ELSE IF unit \in MonthUnits THEN 30
                     ELSE 365
          IN IF ~amount.ok THEN Return(Err("number too large to fit in target type"))
             ELSE IF ~amount.small \/ amount.val > 200000000 \div per
                  THEN Return(Abort("NaiveDate + Duration overflowed"))
                  ELSE Return(DatePlus(now, sign * amount.val * per))

\* Mutant: a month of 31 days.
TryRelative_Month31(input, now) ==
  LET m == RELATIVE_TIME_REGEX(input)
  IN IF ~m.ok THEN FallThrough
     ELSE LET amount == ParseI64(m.caps[1] # <<>>, m.caps[2])
              sign == IF m.caps[1] = <<>> THEN 1 ELSE 0 - 1
              unit == m.caps[3]
              per == IF unit \in DayUnits THEN 1
                     ELSE IF unit \in WeekUnits THEN 7
                     ELSE IF unit \in MonthUnits THEN 31
                     ELSE 365
          IN IF ~amount.ok THEN Return(Err("number too large to fit in target type"))
             ELSE IF ~amount.small \/ amount.val > 200000000 \div per
                  THEN Return(Abort("NaiveDate + Duration overflowed"))
                  ELSE Return(DatePlus(now, sign * amount.val * per))

\* Relative time expressions: now.date_naive() + duration.  An amount beyond
\* i64 is the ParseIntError the ? operator returns; an amount that makes more
\* than 200,000,000 days takes the date out of the range of NaiveDate (where
\* overflow checks are off the products amount * 30 and amount * 365 may
\* wrap instead).
TryRelative(input, now) ==
  LET m == RELATIVE_TIME_REGEX(input)
  IN IF ~m.ok THEN FallThrough
     ELSE LET amount == ParseI64(m.caps[1] # <<>>, m.caps[2])
              sign == IF m.caps[1] = <<>> THEN 1 ELSE 0 - 1
              unit == m.caps[3]
              per == IF unit \in DayUnits THEN 1
                     ELSE IF unit \in WeekUnits THEN 7
                     ELSE IF unit \in MonthUnits THEN 30
                     ELSE 365
          IN IF ~amount.ok THEN Return(Err("number too large to fit in target type"))
             ELSE IF ~amount.small \/ amount.val > 200000000 \div per
                  THEN Return(Abort("NaiveDate + Duration overflowed"))
                  ELSE Return(DatePlus(now, sign * amount.val * per))

\* Day-month formats
TryDayMonth(input, now) ==
  LET m == DAY_MONTH_REGEX(input)
  IN IF ~m.ok THEN FallThrough
     ELSE LET month == parse_month(m.caps[3])
          IN IF ~month.ok THEN Return(Err("Invalid month name"))
             ELSE Return(find_next_occurrence(now, month.val, ParseNat(m.caps[1])))

\* Month-day formats
TryMonthDay(input, now) ==
  LET m == MONTH_DAY_REGEX(input)
  IN IF ~m.ok THEN FallThrough
     ELSE LET month == parse_month(m.caps[1])
          IN IF ~month.ok THEN Return(Err("Invalid month name"))
             ELSE Return(find_next_occurrence(now, month.val, ParseNat(m.caps[3])))

\* from_ymd_opt(year, month, day).ok_or_else(|| anyhow!("Invalid date"))?
OrInvalidDate(opt) == IF opt.some THEN Ok(opt.date) ELSE Err("Invalid date")

\* Full date with alpha month, day first
TryAlphaDMY(input) ==
  LET m == FULL_DATE_ALPHA_DMY(input)
  IN IF ~m.ok THEN FallThrough
     ELSE LET month == parse_month(m.caps[3])
          IN IF ~month.ok THEN Return(Err("Invalid month name"))
             ELSE Return(OrInvalidDate(from_ymd_opt(ParseNat(m.caps[5]), month.val,
                                                    ParseNat(m.caps[1]))))

\* Full date with alpha month, year first
TryAlphaYMD(input) ==
  LET m == FULL_DATE_ALPHA_YMD(input)
  IN IF ~m.ok THEN FallThrough
     ELSE LET month == parse_month(m.caps[3])
          IN IF ~month.ok THEN Return(Err("Invalid month name"))
             ELSE Return(OrInvalidDate(from_ymd_opt(ParseNat(m.caps[1]), month.val,
                                                    ParseNat(m.caps[5]))))

\* Short date (day/month with current year)
TryShort(input, now) ==
  LET m == SHORT_DATE_REGEX(input)
  IN IF ~m.ok THEN FallThrough
     ELSE Return(find_next_occurrence(now, ParseNat(m.caps[3]), ParseNat(m.caps[1])))

\* The patterns in the order parse_date tries them; the first that does not
\* fall through decides.
RECURSIVE FirstOf(_, _, _)
FirstOf(k, input, now) ==
  LET r == CASE k = 1 -> TryYMD(input)
             [] k = 2 -> TryDMY(input)
             [] k = 3 -> TryKeyword(input, now)
             [] k = 4 -> TryWeekday(input)
             [] k = 5 -> TryNextWeekday(input)
             [] k = 6 -> TryNumberedWeekday(input)
             [] k = 7 -> TryMarker(input, now)
             [] k = 8 -> TryOrdinal(input, now)
             [] k = 9 -> TryRelative(input, now)
             [] k = 10 -> TryDayMonth(input, now)
             [] k = 11 -> TryMonthDay(input, now)
             [] k = 12 -> TryAlphaDMY(input)
             [] k = 13 -> TryAlphaYMD(input)
             [] k = 14 -> TryShort(input, now)
             [] OTHER -> Return(Err("Unrecognized date format"))
  IN IF r.kind = "next" THEN FirstOf(k + 1, input, now) ELSE r

\* The body of parse_date after line 53, up to its return or its call of a
\* weekday helper.
Classify(input, now) == FirstOf(1, input, now)

\* Mutant: the days parse_date adds to the date of find_next_weekday are lost.
Finish_NoAdjust(call, today) ==
  IF call.fn = "find_next_weekday"
  THEN Ok(find_next_weekday(today, call.weekday))
  ELSE Ok(find_weekday_offset(today, call.weekday, call.weeks_ahead))

\* The weekday helper a Call names, run from its own clock reading today,
\* and what parse_date makes of its value.
Finish(call, today) ==
  IF call.fn = "find_next_weekday"
  THEN Ok(AddDays(find_next_weekday(today, call.weekday), call.plus))
  ELSE LET date == find_weekday_offset(today, call.weekday, call.weeks_ahead)
       IN IF date.year > MaxDateYear
          THEN Abort("NaiveDate + Duration overflowed")
          ELSE Ok(date)

\* parse_date as a function of its argument and of its clock readings: now
\* the reading of parse_date, helper_now that of the weekday helper.
parse_date(date_str, now, helper_now) ==
  LET c == Classify(Normalize(date_str), now)
  IN IF c.kind = "call" THEN Finish(c, helper_now) ELSE c.res

(***************************************************************************)
(* The inputs of the model.  An input is drawn as a description (gen) and  *)
(* spelled out as text by Spell; parse_date sees the text only.            *)
(***************************************************************************)
\* form: the shape; y, m, d: a date; n: a count; w: a weekday (Mon = 0);
\* long: the full name or the 3-letter one; sep: the separator; padm, padd:
\* month and day written with two digits; word: the unit, the suffix or the
\* text of any other input.  neg: a minus sign before the amount; lead,
\* trail: whitespace around the text; caps: the letter case it is typed in;
\* inner: a space typed after the first character.
Gen(form, y, m, d, n, w, long, sep, padm, padd, word) ==
  [form |-> form, y |-> y, m |-> m, d |-> d, n |-> n, w |-> w, long |-> long,
   sep |-> sep, padm |-> padm, padd |-> padd, word |-> word,
   neg |-> FALSE, lead |-> <<>>, trail |-> <<>>, caps |-> "lower", inner |-> FALSE]

\* A day or month number as text: two digits when padded.
Num(k, pad) == IF pad THEN Pad(Dec(k), 2) ELSE Dec(k)

WeekdayName(w, long) == IF long THEN WeekdayFull[w + 1] ELSE WeekdayShort[w + 1]

MonthName(m, long) == IF long THEN MonthFull[m] ELSE MonthShort[m]

Spell(g) ==
  CASE g.form = "ymd" ->
         Pad(Dec(g.y), 4) \o <<g.sep>> \o Num(g.m, g.padm) \o <<g.sep>> \o Num(g.d, g.padd)
    [] g.form = "dmy" ->
         Num(g.d, g.padd) \o <<g.sep>> \o Num(g.m, g.padm) \o <<g.sep>> \o Pad(Dec(g.y), 4)
    [] g.form = "alpha_dmy" ->
         Num(g.d, g.padd) \o <<g.sep>> \o MonthName(g.m, g.long) \o <<g.sep>> \o Pad(Dec(g.y), 4)
    [] g.form = "alpha_ymd" ->
         Pad(Dec(g.y), 4) \o <<g.sep>> \o MonthName(g.m, g.long) \o <<g.sep>> \o Num(g.d, g.padd)
    [] g.form = "weekday" -> WeekdayName(g.w, g.long)
    [] g.form = "nweekday" -> <<"n">> \o WeekdayName(g.w, g.long)
    [] g.form = "numweekday" -> Dec(g.n) \o WeekdayName(g.w, g.long)
    [] g.form = "relative" -> (IF g.neg THEN <<"-">> ELSE <<>>) \o Dec(g.n) \o g.word
    [] g.form = "ordinal" -> Num(g.d, g.padd) \o g.word
    [] g.form = "day_month" -> Num(g.d, g.padd) \o <<g.sep>> \o MonthName(g.m, g.long)
    [] g.form = "month_day" -> MonthName(g.m, g.long) \o <<g.sep>> \o Num(g.d, g.padd)
    [] g.form = "short" -> Num(g.d, g.padd) \o <<g.sep>> \o Num(g.m, g.padm)
    [] OTHER -> g.word

UpperChar(c) ==
  IF c \in Lower
  THEN UpperSeq[CHOOSE i \in 1..26 : LowerSeq[i] = c]
  ELSE c

\* The spelled text in the letter case it is typed in.
Cased(s, caps) ==
  IF caps = "upper" THEN [i \in 1..Len(s) |-> UpperChar(s[i])]
  ELSE IF caps = "title" THEN [i \in 1..Len(s) |-> IF i = 1 THEN UpperChar(s[i]) ELSE s[i]]
  ELSE IF caps = "mixed" THEN [i \in 1..Len(s) |-> IF i % 2 = 0 THEN UpperChar(s[i]) ELSE s[i]]
  ELSE s

\* The text as it is typed: the whitespace around and inside it, its case.
Text(g) ==
  LET s == Cased(Spell(g), g.caps)
      t == IF g.inner /\ Len(s) >= 2 THEN <<Head(s), " ">> \o Tail(s) ELSE s
  IN g.lead \o t \o g.trail

\* Years of the full-date inputs: a leap and a common year, the centuries
\* 2000 (leap) and 2100 (common), and the first 4-digit year, 0000.
InputYears == {0, 2000, 2023, 2024, 2100}

NumericDateInputs ==
  {Gen(form, y, m, d, 0, 0, FALSE, sep, pad, pad, <<>>) :
     form \in {"ymd", "dmy"}, y \in InputYears, m \in 0..MaxMonthIn,
     d \in 0..MaxDayIn, sep \in Sep, pad \in BOOLEAN}

AlphaDateInputs ==
  {Gen(form, y, m, d, 0, 0, long, "-", FALSE, FALSE, <<>>) :
     form \in {"alpha_dmy", "alpha_ymd"}, y \in {2024, 2100}, m \in 1..12,
     d \in {1, 28, 29, 30, 31, MaxDayIn}, long \in BOOLEAN}

WeekdayInputs ==
  {Gen("weekday", 0, 0, 0, 0, w, long, "-", FALSE, FALSE, <<>>) : w \in 0..6, long \in BOOLEAN}
  \cup {Gen("nweekday", 0, 0, 0, 0, w, long, "-", FALSE, FALSE, <<>>) : w \in 0..6, long \in BOOLEAN}
  \cup {Gen("numweekday", 0, 0, 0, n, w, TRUE, "-", FALSE, FALSE, <<>>) :
          n \in 0..MaxWeeks, w \in 0..6}

MarkerWords ==
  {K_sow, K_eow, K_eonw, K_som, K_eom, K_soq, K_eoq,
   K_soww, K_eoww, K_eoy, K_eonm, K_eonq, K_eony, K_soy}

MarkerInputs == {Gen("marker", 0, 0, 0, 0, 0, FALSE, "-", FALSE, FALSE, k) : k \in MarkerWords}

\* Year-less dates: day and month name in both orders, day and month number.
ShortForms == {"day_month", "month_day", "short"}

ShortInputs ==
  {Gen(form, 0, m, d, 0, 0, FALSE, "-", FALSE, FALSE, <<>>) :
     form \in {"day_month", "month_day"}, m \in 1..12, d \in 0..MaxDayIn}
  \cup {Gen("short", 0, m, d, 0, 0, FALSE, "-", FALSE, FALSE, <<>>) :
          m \in 0..MaxMonthIn, d \in 0..MaxDayIn}

\* Day numbers 0 .. MaxDayIn with each of the four suffixes.
OrdinalInputs ==
  {Gen("ordinal", 0, 0, d, 0, 0, FALSE, "-", FALSE, FALSE, suffix) :
     d \in 0..MaxDayIn, suffix \in OrdinalSuffixes}

Relative(neg, n, unit) ==
  [Gen("relative", 0, 0, 0, n, 0, FALSE, "-", FALSE, FALSE, unit) EXCEPT !.neg = neg]

\* Amounts 0 .. MaxAmount of every unit in every spelling, added and subtracted.
RelativeInputs ==
  {Relative(neg, n, unit) : neg \in BOOLEAN, n \in 0..MaxAmount, unit \in Units}

\* Amounts at and beyond the edge of what dates hold: 999999 days are within
\* the range of NaiveDate, 100000000 days of any unit are not.
LargeAmounts == {999999, 100000000}

\* Digit strings at and beyond the edge of i64: i64::MAX, i64::MAX + 1 and
\* twenty nines.
LargeDigits ==
  {I64MaxDigits, I64MinDigits, [i \in 1..20 |-> "9"]}

\* Large amounts of every unit and large counts of every weekday.
LargeInputs ==
  {Relative(neg, n, unit) : neg \in BOOLEAN, n \in LargeAmounts, unit \in Units}
  \cup {Gen("numweekday", 0, 0, 0, n, w, TRUE, "-", FALSE, FALSE, <<>>) :
          n \in LargeAmounts, w \in 0..6}
  \cup {Gen("word", 0, 0, 0, 0, 0, FALSE, "-", FALSE, FALSE, sign \o digits \o tail) :
          sign \in {<<>>, <<"-">>}, digits \in LargeDigits,
          tail \in {<<"d">>, <<"y","e","a","r","s">>, WeekdayFull[5]}}

\* One input of every kind: keywords, weekdays, markers, ordinals, offsets,
\* month names, numeric dates, and two texts that are no date.
PlainInputs ==
  {Gen("word", 0, 0, 0, 0, 0, FALSE, "-", FALSE, FALSE, word) :
     word \in {K_today, K_tom, K_yesterday, K_eom, K_soww, <<"x","y","z">>, <<>>}}
  \cup {Gen(form, 0, 0, 0, MaxWeeks, 4, long, "-", FALSE, FALSE, <<>>) :
          form \in {"weekday", "nweekday", "numweekday"}, long \in BOOLEAN}
  \cup {Gen("ordinal", 0, 0, d, 0, 0, FALSE, "-", FALSE, FALSE, <<"s","t">>) : d \in {1, 31}}
  \cup {Relative(neg, MaxAmount, unit) :
          neg \in BOOLEAN, unit \in {<<"d">>, <<"w","e","e","k","s">>, <<"y","r">>}}
  \cup {Gen(form, FirstYear, 1, 16, 0, 0, long, "-", FALSE, FALSE, <<>>) :
          form \in ShortForms \cup {"alpha_dmy", "alpha_ymd", "ymd", "dmy"},
          long \in BOOLEAN}

\* The whitespace typed before and after an input.
Margins == {<<>>, <<" ">>, <<"\t", " ">>, <<" ", "\n">>}

LetterCases == {"lower", "upper", "title", "mixed"}

\* Every plain input in every case, with every margin, with and without a
\* space inside.
TypedInputs ==
  {[g EXCEPT !.lead = lead, !.trail = trail, !.caps = caps, !.inner = inner] :
     g \in PlainInputs, lead \in Margins, trail \in Margins,
     caps \in LetterCases, inner \in BOOLEAN}

\* Every day of the years first .. last.
DaysOfYears(first, last) ==
  {date \in {Date(y, m, d) : y \in first..last, m \in 1..12, d \in 1..31} :
     from_ymd_opt(date.year, date.month, date.day).some}

\* The days the clock shows while a period marker is parsed.
ClockDates == DaysOfYears(FirstYear, FirstYear + YearSpan - 1)

\* The days the clock shows while a weekday input is parsed.
WeekdayClock == DaysOfYears(FirstYear, FirstYear)

\* The days the clock shows while a year-less date is parsed: the first, the
\* middle and the last day of every month of the clock years.
ShortClock ==
  {date \in ClockDates :
     date.day \in {1, 15} \/ date.day = DaysInMonth(date.year, date.month)}

\* The days the clock shows while a typed input is parsed.
TextClock == {date \in WeekdayClock : date.day = 15}

\* A full date is parsed on the first of these days; its result is compared
\* with the result on each of them.
FullDateClock == {Date(FirstYear, 1, 1), Date(FirstYear + 1, 12, 31)}

(***************************************************************************)
(* One call of parse_date.                                                 *)
(***************************************************************************)
VARIABLES
  clock,     \* the date Local::now() shows
  gen,       \* the description the argument was spelled from
  date_str,  \* the argument of parse_date
  pc,        \* "start", "classify", "helper", "done"
  input,     \* the normalised argument
  now,       \* the reading of parse_date (line 53)
  pending,   \* the helper call parse_date is in
  helper_now,\* the reading of the weekday helper (line 217 or 354)
  reads,     \* clock readings made by the call
  result     \* the value the call returned

vars == <<clock, gen, date_str, pc, input, now, pending, helper_now, reads, result>>

\* The entry of a call: the clock shows one of the dates, the argument is the
\* text of one of the inputs.
Start(dates, inputs) ==
  /\ clock \in dates
  /\ gen \in inputs
  /\ date_str = Text(gen)
  /\ pc = "start"
  /\ input = <<>>
  /\ now = NoDate
  /\ pending = FallThrough
  /\ helper_now = NoDate
  /\ reads = 0
  /\ result = Err("")

Init ==
  \/ Start(WeekdayClock, WeekdayInputs)
  \/ Start(ClockDates, MarkerInputs)
  \/ Start({Date(FirstYear, 1, 1)}, NumericDateInputs \cup AlphaDateInputs)

\* Lines 52-53: normalise the argument and read the clock.
Begin ==
  /\ pc = "start"
  /\ input' = Normalize(date_str)
  /\ now' = clock
  /\ reads' = reads + 1
  /\ pc' = "classify"
  /\ UNCHANGED <<clock, gen, date_str, pending, helper_now, result>>

\* Lines 55-206: try the patterns in order; return, or enter a weekday helper.
Dispatch ==
  /\ pc = "classify"
  /\ LET c == Classify(input, now)
     IN /\ pending' = c
        /\ result' = IF c.kind = "call" THEN result ELSE c.res
        /\ pc' = IF c.kind = "call" THEN "helper" ELSE "done"
  /\ UNCHANGED <<clock, gen, date_str, input, now, helper_now, reads>>

\* Mutant: the helper counts the days from the weekday of the reading of
\* parse_date and adds them to the date of its own reading.
Helper_MixedReadings ==
  /\ pc = "helper"
  /\ helper_now' = clock
  /\ reads' = reads + 1
  /\ result' = LET r == Finish(pending, now)
               IN IF r.ok THEN Ok(AddDays(clock, DaysBetween(r.date, now))) ELSE r
  /\ pc' = "done"
  /\ UNCHANGED <<clock, gen, date_str, input, now, pending>>

\* Lines 216-225 and 353-365: the helper reads the clock and computes the date,
\* which parse_date returns (lines 84-90, 106, 122, 127-137).
Helper ==
  /\ pc = "helper"
  /\ helper_now' = clock
  /\ reads' = reads + 1
  /\ result' = Finish(pending, clock)
  /\ pc' = "done"
  /\ UNCHANGED <<clock, gen, date_str, input, now, pending>>

\* The clock passes midnight while the call runs.
Tick ==
  /\ pc \in {"classify", "helper"}
  /\ clock = now
  /\ clock' = AddDays(clock, 1)
  /\ UNCHANGED <<gen, date_str, pc, input, now, pending, helper_now, reads, result>>

Next == Begin \/ Dispatch \/ Helper

\* A call during which the date of the clock does not change.
Spec == Init /\ [][Next]_vars

\* Calls with a relative offset on every day of a year, and with a weekday
\* input on its first day.
InitRelative ==
  \/ Start(WeekdayClock, RelativeInputs)
  \/ Start({Date(FirstYear, 1, 1)}, WeekdayInputs)

SpecRelative == InitRelative /\ [][Next]_vars

\* Calls with an ordinal on every day of the clock years, and with a weekday
\* input on the first day.
InitOrdinal ==
  \/ Start(ClockDates, OrdinalInputs)
  \/ Start({Date(FirstYear, 1, 1)}, WeekdayInputs)

SpecOrdinal == InitOrdinal /\ [][Next]_vars

\* Calls with a year-less date, and with a weekday input on the first day.
InitShort ==
  \/ Start(ShortClock, ShortInputs)
  \/ Start({Date(FirstYear, 1, 1)}, WeekdayInputs)

SpecShort == InitShort /\ [][Next]_vars

\* Calls with an input as it is typed.
InitText == Start(TextClock, TypedInputs)

SpecText == InitText /\ [][Next]_vars

\* Calls with a large amount or count, and with a weekday input.
InitLarge ==
  \/ Start(TextClock, LargeInputs)
  \/ Start({Date(FirstYear, 1, 1)}, WeekdayInputs)

SpecLarge == InitLarge /\ [][Next]_vars

NextMidnight == Next \/ Tick

\* A call that may run across midnight.
SpecMidnight == Init /\ [][NextMidnight]_vars

\* Sanity of the calendar arithmetic: day numbers and dates convert back and
\* forth, and the weekday of a known date is right (2024-01-01 is a Monday).
CalendarSane ==
  /\ FromDays(ToDays(clock)) = clock
  /\ WeekdayIndex(Date(2024, 1, 1)) = 0
  /\ ToDays(AddDays(clock, 1)) = ToDays(clock) + 1

(***************************************************************************)
(* The calendar as the claims state it.                                    *)
(***************************************************************************)
\* February has 29 days exactly when the year is divisible by 4 and (not
\* divisible by 100 or divisible by 400).
GregorianLeap(y) == y % 4 = 0 /\ (y % 100 # 0 \/ y % 400 = 0)

MonthLength(y, m) ==
  CASE m = 2 -> IF GregorianLeap(y) THEN 29 ELSE 28
    [] m \in {4, 6, 9, 11} -> 30
    [] OTHER -> 31

RealDate(y, m, d) == m >= 1 /\ m <= 12 /\ d >= 1 /\ d <= MonthLength(y, m)

Done == pc = "done"

NumericForm == gen.form \in {"ymd", "dmy"}

(***************************************************************************)
(* C1.  An input of the numeric year-month-day or day-month-year shape     *)
(* whose (year, month, day) is not a real calendar date fails with the     *)
(* invalid-calendar-date error ("Invalid date"), not with "Unrecognized    *)
(* date format".                                                           *)
(***************************************************************************)
C1_InvalidNumericDateIsInvalidDate ==
  (Done /\ NumericForm /\ ~RealDate(gen.y, gen.m, gen.d))
    => (~result.ok /\ result.err = "Invalid date")

(***************************************************************************)
(* C2.  A numeric Y-M-D or D-M-Y input parses successfully if and only if  *)
(* 1 <= M <= 12 and 1 <= D <= days_in_month(Y, M) under the Gregorian leap *)
(* rule, and on success the result is the date (Y, M, D).                  *)
(***************************************************************************)
C2_NumericDateParsesIffReal ==
  (Done /\ NumericForm)
    => /\ result.ok <=> RealDate(gen.y, gen.m, gen.d)
       /\ result.ok => result.date = Date(gen.y, gen.m, gen.d)

\* 29/02/2000 has been parsed, to 29 February 2000, and 2100-02-29 is among
\* the inputs.
C2_Witness ==
  /\ Done /\ gen.form = "dmy" /\ gen.y = 2000 /\ gen.m = 2 /\ gen.d = 29
  /\ gen.sep = "/" /\ result = Ok(Date(2000, 2, 29))

(***************************************************************************)
(* C3.  For every valid calendar date with a 4-digit year, all accepted    *)
(* full-date spellings parse to the identical date, whatever the current   *)
(* date: numeric Y-M-D and D-M-Y, either separator, day and month padded   *)
(* or not, and D-Mon-Y and Y-Mon-D with the 3-letter or the full month     *)
(* name.                                                                   *)
(***************************************************************************)
FullDateForms == {"ymd", "dmy", "alpha_dmy", "alpha_ymd"}

\* The spelling YYYY-MM-DD of a date.
Canonical(y, m, d) == Gen("ymd", y, m, d, 0, 0, FALSE, "-", TRUE, TRUE, <<>>)

\* Every full-date spelling of a date.
Spellings(y, m, d) ==
  {Spell(Gen(form, y, m, d, 0, 0, long, sep, padm, padd, <<>>)) :
     form \in FullDateForms, long \in BOOLEAN, sep \in Sep,
     padm \in BOOLEAN, padd \in BOOLEAN}

C3_SpellingsAgree ==
  (Done /\ gen.form \in FullDateForms /\ RealDate(gen.y, gen.m, gen.d))
    => /\ result.ok
       /\ \A t \in FullDateClock :
            parse_date(Spell(Canonical(gen.y, gen.m, gen.d)), t, t) = result
       /\ gen = Canonical(gen.y, gen.m, gen.d)
            => \A s \in Spellings(gen.y, gen.m, gen.d), t \in FullDateClock :
                 parse_date(s, t, t) = result

\* 29 February 2024 has been parsed from its spelling with the full month
\* name, day first.
C3_Witness ==
  /\ Done /\ gen.form = "alpha_dmy" /\ gen.long
  /\ gen.y = 2024 /\ gen.m = 2 /\ gen.d = 29
  /\ result = Ok(Date(2024, 2, 29))

(***************************************************************************)
(* C4.  A bare weekday W resolves to the one date in today+1 .. today+7    *)
(* whose weekday is W: never today, and today + 7 when W is the weekday of *)
(* today.                                                                  *)
(***************************************************************************)
C4_BareWeekdayIsNextOccurrence ==
  (Done /\ gen.form = "weekday")
    => /\ result.ok
       /\ DaysBetween(result.date, now) \in 1..7
       /\ WeekdayIndex(result.date) = gen.w
       /\ gen.w = WeekdayIndex(now) => result.date = AddDays(now, 7)

\* The weekday of today was asked for by its 3-letter name and resolved to
\* today + 7.
C4_Witness ==
  /\ Done /\ gen.form = "weekday" /\ ~gen.long /\ gen.w = WeekdayIndex(now)
  /\ result = Ok(AddDays(now, 7))

(***************************************************************************)
(* C5.  (original) n<W> resolves to the date exactly 7 days after the date *)
(* the bare input <W> resolves to on the same current date.                *)
(***************************************************************************)
Bare(w) == Spell(Gen("weekday", 0, 0, 0, 0, w, TRUE, "-", FALSE, FALSE, <<>>))

NextW(w) == Spell(Gen("nweekday", 0, 0, 0, 0, w, TRUE, "-", FALSE, FALSE, <<>>))

Numbered(n, w) == Spell(Gen("numweekday", 0, 0, 0, n, w, TRUE, "-", FALSE, FALSE, <<>>))

\* What the bare weekday input resolves to at the readings of this call.
BareDate(w) == parse_date(Bare(w), now, helper_now).date

\* W comes later than today in the Monday-to-Sunday week of today.
LaterThisWeek(w) == w - WeekdayIndex(now) > 0

C6_Original ==
  (Done /\ gen.form = "numweekday")
    => result = Ok(AddDays(BareDate(gen.w), 7 * gen.n))

(***************************************************************************)
(* C6.  (amended) 0<W> resolves to the date of the bare input <W>.  <N><W> *)
(* with N >= 1 resolves to that date plus 7 * N days when W comes later in *)
(* the week than today, and to that date plus 7 * (N - 1) days when W is   *)
(* the weekday of today or an earlier one.                                 *)
(***************************************************************************)
C6_NumberedWeekdayCountsWeeks ==
  (Done /\ gen.form = "numweekday")
    => /\ result.ok
       /\ result.date =
            IF gen.n = 0 \/ LaterThisWeek(gen.w)
            THEN AddDays(BareDate(gen.w), 7 * gen.n)
            ELSE AddDays(BareDate(gen.w), 7 * (gen.n - 1))

\* 1friday was asked on a Friday and resolved to today + 7, the date bare
\* friday resolves to.
C6_Witness ==
  /\ Done /\ gen.form = "numweekday" /\ gen.n = 1 /\ gen.w = 4
  /\ WeekdayIndex(now) = 4
  /\ result = Ok(AddDays(now, 7))
  /\ result.date = BareDate(4)

Marker(k) == parse_date(k, now, helper_now)

C8_WeekMarkers ==
  /\ (Done /\ gen.word = K_sow)
       => /\ result.ok
          /\ WeekdayIndex(result.date) = 0
          /\ DateLT(now, result.date)
          /\ DateLT(Marker(K_eow).date, result.date)
  /\ (Done /\ gen.word = K_eow)
       => /\ result.ok
          /\ WeekdayIndex(result.date) = 6
          /\ result.date = AddDays(Marker(K_sow).date, 0 - 1)
          /\ DateLE(now, result.date)
          /\ result.date = now <=> WeekdayIndex(now) = 6
  /\ (Done /\ gen.word = K_eonw)
       => /\ result.ok
          /\ Marker(K_eow).ok
          /\ DaysBetween(result.date, Marker(K_eow).date) = 7

\* eow was asked on a Sunday and resolved to today.
C8_Witness ==
  /\ Done /\ gen.word = K_eow /\ WeekdayIndex(now) = 6
  /\ result = Ok(now)

(***************************************************************************)
(* C9.  som resolves to day 1 of the calendar month after the month of     *)
(* today (January of the next year in December), eom to the last day of    *)
(* the month of today (eom >= today, equal to today on the last day of a   *)
(* month), and som - eom is exactly 1 day.                                 *)
(***************************************************************************)
C9_MonthMarkers ==
  /\ (Done /\ gen.word = K_som)
       => /\ result = Ok(IF now.month = 12 THEN Date(now.year + 1, 1, 1)
                         ELSE Date(now.year, now.month + 1, 1))
          /\ Marker(K_eom).ok
          /\ DaysBetween(result.date, Marker(K_eom).date) = 1
  /\ (Done /\ gen.word = K_eom)
       => /\ result = Ok(Date(now.year, now.month, MonthLength(now.year, now.month)))
          /\ DateLE(now, result.date)
          /\ result.date = now <=> now.day = MonthLength(now.year, now.month)

\* eom was asked on 29 February of a leap year and resolved to that day.
C9_Witness ==
  /\ Done /\ gen.word = K_eom /\ now.month = 2 /\ now.day = 29
  /\ result = Ok(now)

(***************************************************************************)
(* C10.  soq resolves to day 1 of the first month of the quarter after the *)
(* quarter of today (month 1, 4, 7 or 10; month 1 of the next year in      *)
(* October to December) and is strictly after today; eoq is the last day   *)
(* of the quarter of today (eoq >= today); soq - eoq is exactly 1 day.     *)
(***************************************************************************)
\* The quarter of a month, 1..4.
Quarter(m) == CASE m \in 1..3 -> 1 [] m \in 4..6 -> 2 [] m \in 7..9 -> 3 [] OTHER -> 4

C10_QuarterMarkers ==
  /\ (Done /\ gen.word = K_soq)
       => /\ result = Ok(IF Quarter(now.month) = 4 THEN Date(now.year + 1, 1, 1)
                         ELSE Date(now.year, 3 * Quarter(now.month) + 1, 1))
          /\ result.date.month \in {1, 4, 7, 10}
          /\ DateLT(now, result.date)
          /\ Marker(K_eoq).ok
          /\ DaysBetween(result.date, Marker(K_eoq).date) = 1
  /\ (Done /\ gen.word = K_eoq)
       => /\ result = Ok(Date(now.year, 3 * Quarter(now.month),
                              MonthLength(now.year, 3 * Quarter(now.month))))
          /\ DateLE(now, result.date)

\* soq was asked in the last quarter of a year and resolved to 1 January of
\* the next year.
C10_Witness ==
  /\ Done /\ gen.word = K_soq /\ now.month = 11
  /\ result = Ok(Date(now.year + 1, 1, 1))

(***************************************************************************)
(* C11.  eonm resolves to the last day of the calendar month after the     *)
(* month of today, eonq to the last day of the quarter after the quarter   *)
(* of today, eony to 31 December of the year after the year of today, the  *)
(* year wrapping where it must; so eonm > eom, eonq > eoq and eony > eoy.  *)
(***************************************************************************)
\* The month after month m of year y, as <<year, month>>.
MonthAfter(y, m) == IF m = 12 THEN <<y + 1, 1>> ELSE <<y, m + 1>>

\* The last month of the quarter after that of month m of year y.
QuarterEndAfter(y, m) ==
  IF Quarter(m) = 4 THEN <<y + 1, 3>> ELSE <<y, 3 * Quarter(m) + 3>>

LastDayOf(ym) == Date(ym[1], ym[2], MonthLength(ym[1], ym[2]))

C11_EndOfNextPeriods ==
  /\ (Done /\ gen.word = K_eonm)
       => /\ result = Ok(LastDayOf(MonthAfter(now.year, now.month)))
          /\ Marker(K_eom).ok /\ DateLT(Marker(K_eom).date, result.date)
  /\ (Done /\ gen.word = K_eonq)
       => /\ result = Ok(LastDayOf(QuarterEndAfter(now.year, now.month)))
          /\ Marker(K_eoq).ok /\ DateLT(Marker(K_eoq).date, result.date)
  /\ (Done /\ gen.word = K_eony)
       => /\ result = Ok(Date(now.year + 1, 12, 31))
          /\ Marker(K_eoy).ok /\ DateLT(Marker(K_eoy).date, result.date)
  /\ (Done /\ gen.word = K_eoy) => result = Ok(Date(now.year, 12, 31))

\* eonq was asked in the third quarter and resolved to 31 December of the
\* year of today; asked in December, eonm is 31 January of the next year.
C11_Witness ==
  /\ Done /\ gen.word = K_eonq /\ now.month = 8
  /\ result = Ok(Date(now.year, 12, 31))
  /\ parse_date(K_eonm, Date(now.year, 12, 5), Date(now.year, 12, 5))
       = Ok(Date(now.year + 1, 1, 31))

(***************************************************************************)
(* C12.  soww resolves to a Monday and eoww to a Saturday; eoww - soww is  *)
(* 5 days when today is Saturday or Sunday and -2 days when today is       *)
(* Monday to Friday.                                                       *)
(***************************************************************************)
C12_WorkWeekMarkers ==
  /\ (Done /\ gen.word = K_soww)
       => result.ok /\ WeekdayIndex(result.date) = 0
  /\ (Done /\ gen.word = K_eoww)
       => /\ result.ok /\ WeekdayIndex(result.date) = 5
          /\ Marker(K_soww).ok
          /\ DaysBetween(result.date, Marker(K_soww).date)
               = IF WeekdayIndex(now) \in {5, 6} THEN 5 ELSE 0 - 2

\* eoww was asked on a Wednesday and resolved to the Saturday two days
\* before the Monday soww resolves to.
C12_Witness ==
  /\ Done /\ gen.word = K_eoww /\ WeekdayIndex(now) = 2
  /\ result = Ok(AddDays(now, 3))
  /\ Marker(K_soww) = Ok(AddDays(now, 5))

(***************************************************************************)
(* C13.  For every amount N >= 0 and every unit, the offsets N<unit> and   *)
(* -N<unit> are symmetric around today: the days from today to the one are *)
(* the negative of the days from today to the other; for N = 0 every unit  *)
(* resolves to today.                                                      *)
(***************************************************************************)
RelativeDone == Done /\ gen.form = "relative"

\* The same offset with the opposite sign.
Mirror(g) == [g EXCEPT !.neg = ~g.neg]

C13_RelativeSignSymmetry ==
  RelativeDone =>
    LET other == parse_date(Spell(Mirror(gen)), now, now)
    IN /\ result.ok /\ other.ok
       /\ DaysBetween(result.date, now) = 0 - DaysBetween(other.date, now)
       /\ (gen.n = 0 => result = Ok(now) /\ other = Ok(now))

\* -2weeks resolved to 14 days before today and 2weeks to 14 days after it.
C13_Witness ==
  /\ RelativeDone /\ gen.neg /\ gen.n = 2 /\ gen.word = <<"w","e","e","k","s">>
  /\ DaysBetween(result.date, now) = 0 - 14
  /\ DaysBetween(parse_date(Spell(Mirror(gen)), now, now).date, now) = 14

(***************************************************************************)
(* C14.  N with a day unit resolves to today + N days, with a week unit to *)
(* today + 7N days, with a month unit to today + 30N days, with a year     *)
(* unit to today + 365N days; 12m and 1y differ by at most 5 days.         *)
(***************************************************************************)
UnitLength(unit) ==
  IF unit \in DayUnits THEN 1
  ELSE IF unit \in WeekUnits THEN 7
  ELSE IF unit \in MonthUnits THEN 30
  ELSE 365

Signed(g) == IF g.neg THEN 0 - g.n ELSE g.n

Abs(k) == IF k < 0 THEN 0 - k ELSE k

C14_RelativeOffsetsInDays ==
  RelativeDone =>
    /\ result.ok
    /\ DaysBetween(result.date, now) = Signed(gen) * UnitLength(gen.word)
    /\ (gen.word \in YearUnits /\ gen.n = 1 /\ ~gen.neg) =>
         \A unit \in MonthUnits :
           LET twelve == parse_date(Spell(Relative(FALSE, 12, unit)), now, now)
           IN twelve.ok /\ Abs(DaysBetween(result.date, twelve.date)) <= 5

\* 2m asked on 31 July resolved 60 days later, to 29 September.
C14_Witness ==
  /\ RelativeDone /\ gen.word = <<"m">> /\ gen.n = 2 /\ ~gen.neg
  /\ now.month = 7 /\ now.day = 31
  /\ result = Ok(Date(now.year, 9, 29))

(***************************************************************************)
(* C15.  For every current date and every spelling of the year unit,       *)
(* 1<unit> resolves to a date in the year after that of today and          *)
(* -1<unit> to a date in the year before it.                               *)
(***************************************************************************)
C15_OneYearChangesTheYear ==
  (RelativeDone /\ gen.word \in YearUnits /\ gen.n = 1) =>
    /\ result.ok
    /\ result.date.year = now.year + (IF gen.neg THEN 0 - 1 ELSE 1)

(***************************************************************************)
(* C16.  For every current date and every day number d in 1..31, the       *)
(* ordinal d<suffix>, with any of the four suffixes, resolves to the       *)
(* earliest date strictly after today whose day of the month is d: never   *)
(* today, in the month of today when today's day is below d and the month  *)
(* has a day d, months without a day d being skipped.                      *)
(***************************************************************************)
OrdinalDone == Done /\ gen.form = "ordinal"

C16_OrdinalIsNextDayOfMonth ==
  (OrdinalDone /\ gen.d \in 1..31) =>
    /\ result.ok
    /\ result.date.day = gen.d
    /\ DateLT(now, result.date)
    /\ \A k \in 1..(DaysBetween(result.date, now) - 1) : AddDays(now, k).day # gen.d
    /\ (now.day < gen.d /\ gen.d <= MonthLength(now.year, now.month))
         => (result.date.year = now.year /\ result.date.month = now.month)

\* 30st, asked on 30 January, skipped February and resolved to 30 March.
C16_Witness ==
  /\ OrdinalDone /\ gen.d = 30 /\ gen.word = <<"s","t">>
  /\ now.month = 1 /\ now.day = 30
  /\ result = Ok(Date(now.year, 3, 30))

(***************************************************************************)
(* C17.  For every current date and every day number in 1..31 the ordinal  *)
(* input succeeds: the search never ends with the error of the bounded     *)
(* window.                                                                 *)
(***************************************************************************)
C17_OrdinalAlwaysSucceeds ==
  (OrdinalDone /\ gen.d \in 1..31) =>
    /\ result.ok
    /\ result.err # "Could not find valid date within reasonable timeframe"

\* 31st, asked on 31 December, resolved to 31 January of the next year.
C17_Witness ==
  /\ OrdinalDone /\ gen.d = 31 /\ now.month = 12 /\ now.day = 31
  /\ result = Ok(Date(now.year + 1, 1, 31))

(***************************************************************************)
(* C18.  For every current date and every (month, day) that is a date of   *)
(* the current year, the short forms D-Mon, Mon-D and D-M resolve to the   *)
(* same date: (current year, month, day) when that is today or later,      *)
(* otherwise (current year + 1, month, day); never a date before today.    *)
(***************************************************************************)
ShortDone == Done /\ gen.form \in ShortForms

\* The same day and month in the three forms, and the form of the call with
\* the full month name, with a slash, with two-digit numbers.
ShortSpellings(g) ==
  {Spell([g EXCEPT !.form = form]) : form \in ShortForms}
  \cup {Spell([g EXCEPT !.long = TRUE]), Spell([g EXCEPT !.sep = "/"]),
        Spell([g EXCEPT !.padd = TRUE, !.padm = TRUE])}

ThisYear(g) == Date(now.year, g.m, g.d)

NextYear(g) == Date(now.year + 1, g.m, g.d)

\* As stated: the date of next year whenever the date of this year is past.
C18_Original ==
  (ShortDone /\ RealDate(now.year, gen.m, gen.d)) =>
    /\ result = IF DateLE(now, ThisYear(gen)) THEN Ok(ThisYear(gen))
                ELSE Ok(NextYear(gen))
    /\ DateLE(now, result.date)

\* Amended: the date of next year when there is one, the error of an invalid
\* date when there is none (29 February, once past in a leap year).
C18_ShortFormsNextOccurrence ==
  (ShortDone /\ RealDate(now.year, gen.m, gen.d)) =>
    /\ result =
         IF DateLE(now, ThisYear(gen)) THEN Ok(ThisYear(gen))
         ELSE IF RealDate(now.year + 1, gen.m, gen.d) THEN Ok(NextYear(gen))
         ELSE Err("Invalid date: the specified day does not exist for this month")
    /\ result.ok => DateLE(now, result.date)
    /\ gen.form = "day_month" =>
         \A text \in ShortSpellings(gen) : parse_date(text, now, now) = result

\* 28-feb, asked on 1 March, resolved to 28 February of the next year, as
\* feb-28 and 28-2 do.
C18_Witness ==
  /\ ShortDone /\ gen.form = "day_month" /\ gen.m = 2 /\ gen.d = 28
  /\ now.month = 3 /\ now.day = 1
  /\ result = Ok(Date(now.year + 1, 2, 28))
  /\ parse_date(<<"f","e","b","-","2","8">>, now, now) = result
  /\ parse_date(<<"2","8","-","2">>, now, now) = result

(***************************************************************************)
(* C19.  For every current date and every month, the day-month input whose *)
(* day is one more than the day limit of the month, February counted with  *)
(* 28 days, is rejected: 32-jan, 31-apr, 31-jun, 31-sep, 31-nov and 29-feb *)
(* are errors whatever the current date.                                   *)
(***************************************************************************)
\* month_limits of test_month_specific_days
DayLimit(m) == <<31, 28, 31, 30, 31, 30, 31, 31, 30, 31, 30, 31>>[m]

C19_DayBeyondLimitIsRejected ==
  (ShortDone /\ gen.form = "day_month" /\ gen.d = DayLimit(gen.m) + 1)
    => ~result.ok

(***************************************************************************)
(* C20.  For every input s and current date, parse(s) is                   *)
(* parse(lowercase(trim(s))): whitespace before and after the input and    *)
(* the case of its letters never change the outcome, date or error, for    *)
(* keywords, weekdays, markers, ordinals, units and month names alike;     *)
(* whitespace inside the input is not removed and makes the input fail.    *)
(***************************************************************************)
\* The typed input in lower case and without its margins.
Plain(g) == Text([g EXCEPT !.lead = <<>>, !.trail = <<>>, !.caps = "lower"])

C20_TrimAndCaseInsensitive ==
  Done =>
    /\ result = parse_date(Plain(gen), now, now)
    /\ (gen.inner /\ Len(Spell(gen)) >= 2) => ~result.ok

\* FRIDAY, typed in capitals between a tab and a newline, resolved to the
\* date friday resolves to.
C20_Witness ==
  /\ Done /\ gen.form = "weekday" /\ gen.long /\ gen.caps = "upper"
  /\ Head(date_str) = "\t" /\ date_str[Len(date_str)] = "\n"
  /\ ~gen.inner /\ result.ok
  /\ result = parse_date(WeekdayFull[5], now, now)

(***************************************************************************)
(* C21.  Every call of parse_date ends by returning exactly one date or    *)
(* exactly one error and never aborts: a relative offset or a numbered     *)
(* weekday with an arbitrarily large digit string yields a date or an      *)
(* error value, not a crash.                                               *)
(***************************************************************************)
\* The texts of the errors parse_date returns.
ErrorTexts ==
  {"Invalid date", "Invalid weekday", "Invalid time unit", "Invalid month name",
   "Unrecognized date format", "number too large to fit in target type",
   "Could not find valid date within reasonable timeframe",
   "Invalid date: the specified day does not exist for this month"}

\* A value of Result<NaiveDate, anyhow::Error>: one date, or one error.
Returned(res) ==
  \/ res.ok /\ res.err = "" /\ RealDate(res.date.year, res.date.month, res.date.day)
  \/ ~res.ok /\ res.date = NoDate /\ res.err \in ErrorTexts

C21_NeverAborts == Done => Returned(result)

(***************************************************************************)
(* C22.  Within one call of parse_date the clock is read exactly once, and *)
(* that reading is the one every date computation of the call uses: no     *)
(* resolver (bare weekday, n-weekday, numbered weekday, week markers)      *)
(* reads the clock a second time.                                          *)
(***************************************************************************)
C22_ClockReadOnce ==
  Done => /\ reads = 1
          /\ helper_now = NoDate

(***************************************************************************)
(* C23.  find_weekday_offset(W, k), with raw = index(W) - index(weekday of *)
(* today) in -6..6: for k = 0 it is today + raw when raw > 0 and           *)
(* today + raw + 7 otherwise, the date of find_next_weekday(W); for k # 0  *)
(* it is today + raw + 7k with raw as it is, so that n<W> and 1<W> are the *)
(* W of the Monday-to-Sunday week after the week of today.                 *)
(***************************************************************************)
\* index(W) - index(weekday of today), today being the reading of the helper.
Raw(w) == w - WeekdayIndex(helper_now)

\* The Monday of the week of today.
MondayOf(today) == AddDays(today, 0 - WeekdayIndex(today))

C23_WeekdayOffset ==
  /\ (Done /\ gen.form = "numweekday") =>
       /\ Raw(gen.w) \in (0 - 6)..6
       /\ gen.n = 0 =>
            /\ result = Ok(AddDays(helper_now, IF Raw(gen.w) > 0 THEN Raw(gen.w)
                                               ELSE Raw(gen.w) + 7))
            /\ result.date = find_next_weekday(helper_now, gen.w)
       /\ gen.n # 0 => result = Ok(AddDays(helper_now, Raw(gen.w) + 7 * gen.n))
       /\ gen.n = 1 => DaysBetween(result.date, MondayOf(helper_now)) = 7 + gen.w
  /\ (Done /\ gen.form = "nweekday") =>
       /\ result = Ok(AddDays(helper_now, Raw(gen.w) + 7))
       /\ DaysBetween(result.date, MondayOf(helper_now)) = 7 + gen.w

\* 2monday was asked on a Thursday and resolved to today - 3 + 14, where
\* 0monday is today + 4.
C23_Witness ==
  /\ Done /\ gen.form = "numweekday" /\ gen.n = 2 /\ gen.w = 0
  /\ WeekdayIndex(helper_now) = 3
  /\ result = Ok(AddDays(helper_now, 11))
  /\ parse_date(Numbered(0, 0), now, helper_now) = Ok(AddDays(helper_now, 4))

(***************************************************************************)
(* C24.  For every valid current date, each period-boundary function       *)
(* (start_of_next_month/quarter/year, end_of_current_month/quarter/year,   *)
(* end_of_next_month/quarter/year) builds its date from a month in 1..12   *)
(* and day 1, so that its expect("Invalid date ...") is never reached.     *)
(***************************************************************************)
StartsOf(today) ==
  {start_of_next_month(today), start_of_next_quarter(today), start_of_next_year(today)}

EndsOf(today) ==
  {end_of_current_month(today), end_of_current_quarter(today),
   end_of_current_year(today), end_of_next_month(today),
   end_of_next_quarter(today), end_of_next_year(today)}

PeriodMarkers == {K_som, K_soq, K_soy, K_eom, K_eoq, K_eoy, K_eonm, K_eonq, K_eony}

C24_PeriodDatesAreBuilt ==
  (Done /\ gen.form = "marker") =>
    /\ \A r \in StartsOf(now) :
         r.ok /\ r.date.day = 1 /\ RealDate(r.date.year, r.date.month, 1)
    /\ \A r \in EndsOf(now) :
         /\ r.ok
         /\ AddDays(r.date, 1).day = 1
         /\ RealDate(r.date.year, r.date.month, r.date.day)
    /\ gen.word \in PeriodMarkers => result.ok

\* soy was asked on 31 December and resolved to 1 January, the date
\* start_of_next_month builds with its month wrapped.
C24_Witness ==
  /\ Done /\ gen.word = K_soy /\ now.month = 12 /\ now.day = 31
  /\ result = Ok(Date(now.year + 1, 1, 1))
  /\ start_of_next_month(now) = result
  /\ end_of_next_quarter(now) = Ok(Date(now.year + 1, 3, 31))

(***************************************************************************)
(* C25.  Even when the clock advances, across midnight too, between the    *)
(* clock reads of one call, the returned date is a function of the input   *)
(* and of one single reading: there is a reading r taken during the call   *)
(* such that the result is the result computed with today = date(r); no    *)
(* result combines the date of one reading with the weekday or date of     *)
(* another.                                                                *)
(***************************************************************************)
\* The clock readings the call has made.
Readings == {now} \cup (IF helper_now = NoDate THEN {} ELSE {helper_now})

C25_ResultFromOneReading ==
  Done => \E r \in Readings : result = parse_date(date_str, r, r)

\* Midnight passed between the two readings of a call with a weekday input:
\* the result is that of the second reading, and not that of the first.
C25_Witness ==
  /\ Done /\ gen.form = "weekday" /\ reads = 2
  /\ helper_now = AddDays(now, 1)
  /\ result = parse_date(date_str, helper_now, helper_now)
  /\ result # parse_date(date_str, now, now)

(***************************************************************************)
(* C26.  The month-by-month loop of find_next_occurrence_of_day ends for   *)
(* every current date and every day number 0..31: it returns a date as     *)
(* soon as (year, month, day) is valid, and stops with the error of the    *)
(* window once the year exceeds the starting year + 2; for day 0 (0th) no  *)
(* month matches and the call ends with that error, neither looping for    *)
(* ever nor returning a date.                                              *)
(***************************************************************************)
\* The months from the one after (y, m) to December of year last.
MonthsThrough(y, m, last) == 12 * (last - y) + (12 - m)

C26_OrdinalLoopEnds ==
  (OrdinalDone /\ gen.d \in 0..31) =>
    /\ OrdinalTries(now, gen.d) \in 1..35
    /\ gen.d = 0 =>
         /\ result = Err("Could not find valid date within reasonable timeframe")
         /\ OrdinalTries(now, gen.d) = MonthsThrough(now.year, now.month, now.year + 2)
    /\ gen.d # 0 =>
         /\ result.ok
         /\ RealDate(result.date.year, result.date.month, gen.d)
         /\ result.date.day = gen.d
         /\ OrdinalTries(now, gen.d) \in 1..2
         /\ result.date.year <= now.year + 1

\* 0th, asked in December, tried the 24 months of the next two years and
\* ended with the error of the window.
C26_Witness ==
  /\ OrdinalDone /\ gen.d = 0 /\ now.month = 12
  /\ OrdinalTries(now, 0) = 24
  /\ result = Err("Could not find valid date within reasonable timeframe")
====
